---- MODULE Spec2Model ----
(***************************************************************************)
(* Model of cleaning.py: a single-pass batch job over one in-memory table. *)
(* The script is a straight line of stages; each stage is one action and   *)
(* pc names the stage that runs next.  A string is a sequence of           *)
(* one-character strings, so that strip / lower / regex replacement /      *)
(* strptime / strftime are computed character by character.               *)
(***************************************************************************)
EXTENDS Integers, Sequences, FiniteSets, TLC

VARIABLES
    raw,        \* the table as loaded by pl.read_csv (never reassigned)
    df,         \* the script's global df, reassigned by every stage
    pc,         \* the stage that runs next, or "done" / "failed"
    err,        \* the exception that ended the run, "none" otherwise
    warnings,   \* columns for which "WARNING: could not parse" was printed
    parsedMsg,  \* <<col, fmt>> pairs printed by "Parsed {col} using format {fmt}"
    cleaned,    \* cleaned.parquet
    agg1,       \* agg1.parquet
    agg2,       \* agg2.parquet
    agg3        \* agg3.parquet

vars == <<raw, df, pc, err, warnings, parsedMsg, cleaned, agg1, agg2, agg3>>

(***************************************************************************)
(* Characters                                                              *)
(***************************************************************************)
Upper == <<"A","B","C","D","E","F","G","H","I","J","K","L","M",
           "N","O","P","Q","R","S","T","U","V","W","X","Y","Z">>

LowerL == <<"a","b","c","d","e","f","g","h","i","j","k","l","m",
            "n","o","p","q","r","s","t","u","v","w","x","y","z">>

Digits == <<"0","1","2","3","4","5","6","7","8","9">>

\* A non-ASCII letter and its capital (e-acute), written by code point.
NonAsciiLower == "U+00E9"

NonAsciiUpper == "U+00C9"

ToSet(seq) == {seq[i] : i \in 1..Len(seq)}

IndexOf(seq, c) == CHOOSE i \in 1..Len(seq) : seq[i] = c

IsSpace(c) == c \in {" ", "\t"}

IsDigit(c) == c \in ToSet(Digits)

IsAsciiWord(c) == c \in ToSet(LowerL) \cup ToSet(Digits) \cup {"_"}

\* \w of a Python 3 str pattern: Unicode letters and digits, and underscore.
IsWord(c) ==
    c \in ToSet(Upper) \cup ToSet(LowerL) \cup ToSet(Digits)
          \cup {"_", NonAsciiLower, NonAsciiUpper}

LowerChar(c) ==
    IF c \in ToSet(Upper) THEN LowerL[IndexOf(Upper, c)]
    ELSE IF c = NonAsciiUpper THEN NonAsciiLower
    ELSE c

\* str.lower() / .str.to_lowercase()
ToLower(s) == [i \in 1..Len(s) |-> LowerChar(s[i])]

RECURSIVE StripLeft(_)
StripLeft(s) ==
    IF s # <<>> /\ IsSpace(Head(s)) THEN StripLeft(Tail(s)) ELSE s

RECURSIVE StripRight(_)
StripRight(s) ==
    IF s # <<>> /\ IsSpace(s[Len(s)])
    THEN StripRight(SubSeq(s, 1, Len(s) - 1))
    ELSE s

\* str.strip()
Strip(s) == StripRight(StripLeft(s))

\* re.sub(r'\W+', '_', s): every maximal run of non-word characters becomes
\* one underscore; inRun says the previous character was part of a run.
RECURSIVE ReSubNonWord(_, _)
ReSubNonWord(s, inRun) ==
    IF s = <<>> THEN <<>>
    ELSE IF IsWord(Head(s)) THEN <<Head(s)>> \o ReSubNonWord(Tail(s), FALSE)
    ELSE IF inRun THEN ReSubNonWord(Tail(s), TRUE)
    ELSE <<"_">> \o ReSubNonWord(Tail(s), TRUE)

NormalizeNameNoStrip(col) == ReSubNonWord(ToLower(col), FALSE)

\* cleaning.py line 17
NormalizeName(col) == ReSubNonWord(ToLower(Strip(col)), FALSE)

(***************************************************************************)
(* Cells and tables                                                        *)
(***************************************************************************)
Str(s) == [null |-> FALSE, s |-> s, n |-> 0]

Num(n) == [null |-> FALSE, s |-> <<>>, n |-> n]

NullCell == [null |-> TRUE, s |-> <<>>, n |-> 0]

IsDistinct(seq) ==
    \A i, j \in 1..Len(seq) : seq[i] = seq[j] => i = j

HasColumn(t, name) == \E i \in 1..Len(t.columns) : t.columns[i] = name

ColIndex(t, name) == CHOOSE i \in 1..Len(t.columns) : t.columns[i] = name

Column(t, i) == [r \in 1..Len(t.rows) |-> t.rows[r][i]]

(***************************************************************************)
(* 3. CLEAN TEXT COLUMNS                                                   *)
(***************************************************************************)
NULL_EQUIV ==
    { <<>>, <<" ">>, <<"n","a">>, <<"n","/","a">>, <<"n","u","l","l">>, <<"-">> }

NullLiteral == <<"n","u","l","l">>

TrimLeadingOnly(s) == StripLeft(s)

\* .str.replace_all(r'^\s+|\s+$', ''): the leading run of whitespace matches
\* the first alternative, the trailing run the second; both are deleted.
StrReplaceAllTrim(s) ==
    LET afterLeading == StripLeft(s)
    IN  StripRight(afterLeading)

\* when(...is_in(NULL_EQUIV)).then(lit("null")).otherwise(trimmed lowercased);
\* on a missing value the predicate is null, the otherwise branch is taken and
\* its value is the missing value again.
CleanTextCell(c) ==
    IF c.null THEN c
    ELSE LET t == ToLower(StrReplaceAllTrim(c.s))
         IN  IF t \in NULL_EQUIV THEN Str(NullLiteral) ELSE Str(t)

\* lines 24-43: only the columns whose dtype is Utf8 are rewritten
CleanTextTable(t) ==
    [t EXCEPT !.rows =
        [r \in 1..Len(t.rows) |->
            [i \in 1..Len(t.columns) |->
                IF t.dtypes[i] = "Utf8"
                THEN CleanTextCell(t.rows[r][i])
                ELSE t.rows[r][i]]]]

(***************************************************************************)
(* 4. FIX DATE COLUMNS                                                     *)
(***************************************************************************)
TRADE == <<"t","r","a","d","e">>

\* Python's `sub in s` on strings
Contains(s, sub) ==
    \E k \in 0..(Len(s) - Len(sub)) : SubSeq(s, k + 1, k + Len(sub)) = sub

\* A strptime format is a sequence of items: "%Y", "%m", "%d" or a literal.
FMT_YMD == <<"%Y", "-", "%m", "-", "%d">>

FMT_MDY == <<"%m", "/", "%d", "/", "%Y">>

FMT_DMY == <<"%d", "/", "%m", "/", "%Y">>

\* line 49
date_formats == <<FMT_YMD, FMT_MDY, FMT_DMY>>

DigitVal(c) == IndexOf(Digits, c) - 1

RECURSIVE ToNat(_)
ToNat(s) ==
    IF s = <<>> THEN 0
    ELSE 10 * ToNat(SubSeq(s, 1, Len(s) - 1)) + DigitVal(s[Len(s)])

AllDigits(s) == \A i \in 1..Len(s) : IsDigit(s[i])

IsLeap(y) == (y % 4 = 0 /\ y % 100 # 0) \/ y % 400 = 0

DaysInMonth(y, m) ==
    IF m = 2 THEN (IF IsLeap(y) THEN 29 ELSE 28)
    ELSE IF m \in {4, 6, 9, 11} THEN 30 ELSE 31

ItemWidth(item) == IF item = "%Y" THEN 4 ELSE IF item \in {"%m", "%d"} THEN 2 ELSE 1

NoDate == [ok |-> FALSE, y |-> 0, m |-> 0, d |-> 0]

\* Consumes the text item by item (zero-padded fields: four digits for %Y, two
\* for %m and %d); acc holds the fields read so far.
RECURSIVE ParseItems(_, _, _)
ParseItems(s, fmt, acc) ==
    IF fmt = <<>> THEN (IF s = <<>> THEN acc ELSE NoDate)
    ELSE LET item == Head(fmt)
             w    == ItemWidth(item)
         IN  IF Len(s) < w THEN NoDate
             ELSE LET tok == SubSeq(s, 1, w)
                      rest == SubSeq(s, w + 1, Len(s))
                  IN  IF item \in {"%Y", "%m", "%d"}
                      THEN IF ~AllDigits(tok) THEN NoDate
                           ELSE ParseItems(rest, Tail(fmt),
                                  IF item = "%Y" THEN [acc EXCEPT !.y = ToNat(tok)]
                                  ELSE IF item = "%m" THEN [acc EXCEPT !.m = ToNat(tok)]
                                  ELSE [acc EXCEPT !.d = ToNat(tok)])
                      ELSE IF tok = <<item>> THEN ParseItems(rest, Tail(fmt), acc)
                           ELSE NoDate

\* One value against one format: the calendar date, or ok = FALSE.
Strptime(s, fmt) ==
    LET r == ParseItems(s, fmt, [ok |-> TRUE, y |-> 0, m |-> 0, d |-> 0])
    IN  IF r.ok /\ r.m \in 1..12 /\ r.d >= 1 /\ r.d <= DaysInMonth(r.y, r.m)
        THEN r ELSE NoDate

\* A pl.Date value is held as the number yyyymmdd, which orders as dates do.
DateNum(r) == r.y * 10000 + r.m * 100 + r.d

RECURSIVE PadDigits(_, _)
PadDigits(n, w) ==
    IF w = 0 THEN <<>> ELSE PadDigits(n \div 10, w - 1) \o <<Digits[(n % 10) + 1]>>

\* .dt.strftime("%Y-%m-%d")
Strftime(n) ==
    PadDigits(n \div 10000, 4) \o <<"-">> \o PadDigits((n \div 100) % 100, 2)
        \o <<"-">> \o PadDigits(n % 100, 2)

\* .str.strptime(pl.Date, format=fmt, strict=True) on a whole column: a
\* missing value stays missing; one value that does not match raises.
StrptimeColumn(cells, fmt) ==
    IF \E i \in 1..Len(cells) : ~cells[i].null /\ ~Strptime(cells[i].s, fmt).ok
    THEN [ok |-> FALSE, cells |-> cells]
    ELSE [ok |-> TRUE,
          cells |-> [i \in 1..Len(cells) |->
                        IF cells[i].null THEN NullCell
                        ELSE Num(DateNum(Strptime(cells[i].s, fmt)))]]

\* line 66: the format handed to strptime inside the loop is the literal
\* "%m/%d/%Y", whatever candidate fmt the loop is at.
AttemptFormat(fmt) == FMT_MDY

CaughtNothing(cells) == FALSE

\* lines 71-72: `except pl.ComputeError: continue` around the strict parse.
\* The failure of a strict parse is taken to be raised as the class the clause
\* names, as the script expects of the polars it runs on.
ParseErrorCaught(cells) == TRUE

\* lines 63-72: the candidates in order; stops at the first attempt that
\* succeeds.  fmt in the result is the loop variable printed on line 69.
RECURSIVE TryFormats(_, _)
TryFormats(cells, k) ==
    IF k > Len(date_formats)
    THEN [parsed |-> FALSE, raised |-> FALSE, cells |-> cells, fmt |-> <<>>]
    ELSE LET r == StrptimeColumn(cells, AttemptFormat(date_formats[k]))
         IN  IF r.ok
             THEN [parsed |-> TRUE, raised |-> FALSE, cells |-> r.cells,
                   fmt |-> date_formats[k]]
             ELSE IF ParseErrorCaught(cells) THEN TryFormats(cells, k + 1)
             ELSE [parsed |-> FALSE, raised |-> TRUE, cells |-> cells, fmt |-> <<>>]

StrftimeColumn(cells) ==
    [i \in 1..Len(cells) |->
        IF cells[i].null THEN NullCell ELSE Str(Strftime(cells[i].n))]

SetColumn(t, i, cells) ==
    [t EXCEPT !.rows =
        [r \in 1..Len(t.rows) |-> [t.rows[r] EXCEPT ![i] = cells[r]]]]

\* lines 55-80 for the columns from index i on; st carries the table, the
\* warnings and the "Parsed ..." messages printed so far.
RECURSIVE FixDateColumnsFrom(_, _)
FixDateColumnsFrom(st, i) ==
    IF i > Len(st.t.columns) \/ st.raised THEN st
    ELSE IF ~Contains(st.t.columns[i], TRADE) \/ st.t.dtypes[i] # "Utf8"
         THEN FixDateColumnsFrom(st, i + 1)
    ELSE LET r == TryFormats(Column(st.t, i), 1)
         IN  IF r.raised THEN [st EXCEPT !.raised = TRUE]
             ELSE IF r.parsed
             THEN FixDateColumnsFrom(
                    [st EXCEPT !.t = SetColumn(st.t, i, StrftimeColumn(r.cells)),
                               !.msgs = @ \cup {<<st.t.columns[i], r.fmt>>}],
                    i + 1)
             ELSE FixDateColumnsFrom(
                    [st EXCEPT !.warns = @ \cup {st.t.columns[i]}], i + 1)

FixDateColumns(t) ==
    FixDateColumnsFrom([t |-> t, warns |-> {}, msgs |-> {}, raised |-> FALSE], 1)


(***************************************************************************)
(* 5. ENFORCE TARGET SCHEMA                                                *)
(***************************************************************************)
N_trade_date == <<"t","r","a","d","e","_","d","a","t","e">>

N_ticker == <<"t","i","c","k","e","r">>

N_sector == <<"s","e","c","t","o","r">>

N_open_price == <<"o","p","e","n","_","p","r","i","c","e">>

N_close_price == <<"c","l","o","s","e","_","p","r","i","c","e">>

N_volume == <<"v","o","l","u","m","e">>

N_validated == <<"v","a","l","i","d","a","t","e","d">>

N_currency == <<"c","u","r","r","e","n","c","y">>

N_exchange == <<"e","x","c","h","a","n","g","e">>

N_notes == <<"n","o","t","e","s">>

\* lines 83-94
target_schema ==
    << <<N_trade_date, "Utf8">>, <<N_ticker, "Utf8">>, <<N_sector, "Utf8">>,
       <<N_open_price, "Float64">>, <<N_close_price, "Float64">>,
       <<N_volume, "Int64">>, <<N_validated, "Utf8">>, <<N_currency, "Utf8">>,
       <<N_exchange, "Utf8">>, <<N_notes, "Utf8">> >>

InSchema(name) == \E k \in 1..Len(target_schema) : target_schema[k][1] = name

TargetType(name) ==
    target_schema[CHOOSE k \in 1..Len(target_schema) : target_schema[k][1] = name][2]

RECURSIVE FormatNat(_)
FormatNat(n) ==
    IF n < 10 THEN <<Digits[n + 1]>>
    ELSE FormatNat(n \div 10) \o <<Digits[(n % 10) + 1]>>

\* .cast(dtype, strict=False) of one value.  Numbers of the model are whole:
\* text casts to a number when it is a run of digits and to the missing value
\* otherwise; a whole Float64 prints with ".0".
CastCell(c, from, to) ==
    IF c.null \/ from = to THEN c
    ELSE IF to = "Utf8"
    THEN Str(FormatNat(c.n) \o (IF from = "Float64" THEN <<".", "0">> ELSE <<>>))
    ELSE IF from = "Utf8"
    THEN (IF c.s # <<>> /\ AllDigits(c.s) THEN Num(ToNat(c.s)) ELSE NullCell)
    ELSE c

\* lines 96-101: every target column present in the table is cast
EnforceSchema(t) ==
    [t EXCEPT
        !.dtypes = [i \in 1..Len(t.columns) |->
                       IF InSchema(t.columns[i]) THEN TargetType(t.columns[i])
                       ELSE t.dtypes[i]],
        !.rows = [r \in 1..Len(t.rows) |->
                    [i \in 1..Len(t.columns) |->
                        IF InSchema(t.columns[i])
                        THEN CastCell(t.rows[r][i], t.dtypes[i], TargetType(t.columns[i]))
                        ELSE t.rows[r][i]]]]

(***************************************************************************)
(* 6. SAVE CLEANED                                                         *)
(***************************************************************************)
\* df.unique(): the distinct rows, in an order polars does not promise
UniqueOrders(rows) ==
    LET S == ToSet(rows)
        k == Cardinality(S)
    IN  {o \in [1..k -> S] : IsDistinct(o)}

(***************************************************************************)
(* 7. AGGREGATES                                                           *)
(***************************************************************************)
KeyOf(row, keyIdx) == [k \in 1..Len(keyIdx) |-> row[keyIdx[k]]]

\* group_by(keys).agg(mean): one pass over the rows; acc holds one entry per
\* key met so far, with the sum and the count of its values.
RECURSIVE GroupAcc(_, _, _, _)
GroupAcc(rows, keyIdx, valIdx, acc) ==
    IF rows = <<>> THEN acc
    ELSE LET row == Head(rows)
             key == KeyOf(row, keyIdx)
             v   == row[valIdx].n
             hit == {g \in 1..Len(acc) : acc[g].key = key}
         IN  IF hit = {}
             THEN GroupAcc(Tail(rows), keyIdx, valIdx,
                           Append(acc, [key |-> key, sum |-> v, n |-> 1]))
             ELSE LET g == CHOOSE g \in hit : TRUE
                  IN  GroupAcc(Tail(rows), keyIdx, valIdx,
                               [acc EXCEPT ![g] = [key |-> key, sum |-> @.sum + v,
                                                   n |-> @.n + 1]])

KeepAll(rows, valIdx) == rows

\* df.filter(pl.col(val).is_not_null())
FilterNotNull(rows, valIdx) ==
    LET NotNull(row) == ~row[valIdx].null
    IN  SelectSeq(rows, NotNull)

\* filter / group_by / mean; the result is a set of groups (their order is not
\* promised), each mean held exactly as sum over n.
GroupByMean(t, keyNames, valName) ==
    LET keyIdx == [k \in 1..Len(keyNames) |-> ColIndex(t, keyNames[k])]
        valIdx == ColIndex(t, valName)
    IN  ToSet(GroupAcc(FilterNotNull(t.rows, valIdx), keyIdx, valIdx, <<>>))

HasAll(t, names) == \A k \in 1..Len(names) : HasColumn(t, names[k])

\* ---- Aggregate 3 ----
FirstNonNull(cells) ==
    LET nn == {i \in 1..Len(cells) : ~cells[i].null}
    IN  IF nn = {} THEN 0 ELSE CHOOSE i \in nn : \A j \in nn : i <= j

\* line 130: .str.strptime(pl.Date) with no format, strict.  The layout is
\* inferred from the first value present (day/month/year or year-month-day),
\* then every value must match it; a column with no value at all, a first
\* value of no known layout, or a later value that does not match, raises.
StrptimeInfer(cells) ==
    LET f == FirstNonNull(cells)
    IN  IF f = 0 THEN [ok |-> FALSE, cells |-> cells]
        ELSE IF Strptime(cells[f].s, FMT_DMY).ok THEN StrptimeColumn(cells, FMT_DMY)
        ELSE IF Strptime(cells[f].s, FMT_YMD).ok THEN StrptimeColumn(cells, FMT_YMD)
        ELSE [ok |-> FALSE, cells |-> cells]

CharOrder ==
    <<"\t", " ", "(", ")", "-", ".", "/">> \o Digits \o Upper \o <<"_">> \o LowerL
        \o <<NonAsciiUpper, NonAsciiLower>>

RECURSIVE StrLess(_, _)
StrLess(a, b) ==
    IF b = <<>> THEN FALSE
    ELSE IF a = <<>> THEN TRUE
    ELSE IF Head(a) = Head(b) THEN StrLess(Tail(a), Tail(b))
    ELSE IndexOf(CharOrder, Head(a)) < IndexOf(CharOrder, Head(b))

\* missing values sort first
CellLess(a, b) ==
    IF a.null \/ b.null THEN a.null /\ ~b.null
    ELSE IF a.s # b.s THEN StrLess(a.s, b.s)
    ELSE a.n < b.n

\* the sort key of line 131: (ticker, trade_date)
KeyLess(a, b) ==
    \/ CellLess(a.ticker, b.ticker)
    \/ a.ticker = b.ticker /\ CellLess(a.trade_date, b.trade_date)

RECURSIVE InsertSorted(_, _)
InsertSorted(sorted, row) ==
    IF sorted = <<>> THEN <<row>>
    ELSE IF KeyLess(row, Head(sorted)) THEN <<row>> \o sorted
    ELSE <<Head(sorted)>> \o InsertSorted(Tail(sorted), row)

RECURSIVE SortRows(_)
SortRows(rows) ==
    IF rows = <<>> THEN <<>>
    ELSE InsertSorted(SortRows(SubSeq(rows, 1, Len(rows) - 1)), rows[Len(rows)])

NoReturn == [null |-> TRUE, num |-> 0, den |-> 1]

\* close / previous close - 1, held exactly as (close - previous) / previous;
\* missing when either close is missing
Ratio(c, p) ==
    IF c.null \/ p.null THEN NoReturn
    ELSE [null |-> FALSE, num |-> c.n - p.n, den |-> p.n]

PrevAnyTicker(rows, i) == IF i = 1 THEN 0 ELSE i - 1

\* shift(1).over("ticker"): the row before row i among the rows of its ticker
\* (0 when it is the first of them)
PrevInGroup(rows, i) ==
    LET before == {j \in 1..(i - 1) : rows[j].ticker = rows[i].ticker}
    IN  IF before = {} THEN 0 ELSE CHOOSE j \in before : \A k \in before : k <= j

\* lines 133-137
WithReturn(rows) ==
    [i \in 1..Len(rows) |->
        LET p == PrevInGroup(rows, i)
        IN  [trade_date |-> rows[i].trade_date, ticker |-> rows[i].ticker,
             ret |-> IF p = 0 THEN NoReturn
                     ELSE Ratio(rows[i].close_price, rows[p].close_price)]]

\* line 139: .drop_nulls() over (trade_date, ticker, return)
DropNulls(rows) ==
    LET Full(row) == ~row.trade_date.null /\ ~row.ticker.null /\ ~row.ret.null
    IN  SelectSeq(rows, Full)

\* the triple's nulls taken out before the sort and the shift
DailyReturnsNullsFirst(t, dates) ==
    LET ti == ColIndex(t, N_ticker)
        ci == ColIndex(t, N_close_price)
        tmp == [r \in 1..Len(t.rows) |->
                   [trade_date |-> dates[r], ticker |-> t.rows[r][ti],
                    close_price |-> t.rows[r][ci]]]
        Full(row) == ~row.trade_date.null /\ ~row.ticker.null /\ ~row.close_price.null
    IN  DropNulls(WithReturn(SortRows(SelectSeq(tmp, Full))))

\* lines 129-139 on a table whose trade_date has been parsed to dates
DailyReturns(t, dates) ==
    LET ti == ColIndex(t, N_ticker)
        ci == ColIndex(t, N_close_price)
        tmp == [r \in 1..Len(t.rows) |->
                   [trade_date |-> dates[r], ticker |-> t.rows[r][ti],
                    close_price |-> t.rows[r][ci]]]
    IN  DropNulls(WithReturn(SortRows(tmp)))


(***************************************************************************)
(* The stages                                                              *)
(***************************************************************************)
EmptyTable == [columns |-> <<>>, dtypes |-> <<>>, rows |-> <<>>]

\* 2. NORMALIZE COLUMN HEADERS (lines 16-18).  df.rename refuses a mapping
\* that gives two columns the same name.
NormalizeHeaders ==
    /\ pc = "headers"
    /\ LET new == [i \in 1..Len(df.columns) |-> NormalizeName(df.columns[i])]
       IN  IF IsDistinct(new)
           THEN /\ df' = [df EXCEPT !.columns = new]
                /\ pc' = "text"
                /\ err' = err
           ELSE /\ df' = df
                /\ pc' = "failed"
                /\ err' = "DuplicateError"
    /\ UNCHANGED <<raw, warnings, parsedMsg, cleaned, agg1, agg2, agg3>>

\* 3. CLEAN TEXT COLUMNS (lines 22-43)
CleanTextColumns ==
    /\ pc = "text"
    /\ df' = CleanTextTable(df)
    /\ pc' = "dates"
    /\ UNCHANGED <<raw, err, warnings, parsedMsg, cleaned, agg1, agg2, agg3>>

\* 4. FIX DATE COLUMNS (lines 47-80)
FixDates ==
    /\ pc = "dates"
    /\ LET st == FixDateColumns(df)
       IN  /\ df' = st.t
           /\ warnings' = st.warns
           /\ parsedMsg' = st.msgs
           /\ pc' = IF st.raised THEN "failed" ELSE "schema"
           /\ err' = IF st.raised THEN "ComputeError" ELSE err
    /\ UNCHANGED <<raw, cleaned, agg1, agg2, agg3>>

\* 5. ENFORCE TARGET SCHEMA (lines 96-101)
Schema ==
    /\ pc = "schema"
    /\ df' = EnforceSchema(df)
    /\ pc' = "save"
    /\ UNCHANGED <<raw, err, warnings, parsedMsg, cleaned, agg1, agg2, agg3>>

\* 6. SAVE CLEANED (lines 104-105)
SaveCleaned ==
    /\ pc = "save"
    /\ \E o \in UniqueOrders(df.rows) :
          /\ df' = [df EXCEPT !.rows = o]
          /\ cleaned' = [written |-> TRUE, table |-> df']
    /\ pc' = "agg1"
    /\ UNCHANGED <<raw, err, warnings, parsedMsg, agg1, agg2, agg3>>

\* Daily average close (lines 112-117): a column the expression names and the
\* table lacks raises ColumnNotFoundError.
Agg1 ==
    /\ pc = "agg1"
    /\ IF HasAll(df, <<N_close_price, N_trade_date, N_ticker>>)
       THEN /\ agg1' = [written |-> TRUE,
                        rows |-> GroupByMean(df, <<N_trade_date, N_ticker>>,
                                             N_close_price)]
            /\ pc' = "agg2"
            /\ err' = err
       ELSE /\ agg1' = agg1
            /\ pc' = "failed"
            /\ err' = "ColumnNotFoundError"
    /\ UNCHANGED <<raw, df, warnings, parsedMsg, cleaned, agg2, agg3>>

\* Volume by sector (lines 120-125)
Agg2 ==
    /\ pc = "agg2"
    /\ IF HasAll(df, <<N_volume, N_sector>>)
       THEN /\ agg2' = [written |-> TRUE,
                        rows |-> GroupByMean(df, <<N_sector>>, N_volume)]
            /\ pc' = "agg3"
            /\ err' = err
       ELSE /\ agg2' = agg2
            /\ pc' = "failed"
            /\ err' = "ColumnNotFoundError"
    /\ UNCHANGED <<raw, df, warnings, parsedMsg, cleaned, agg1, agg3>>

\* Daily returns (lines 128-140), then "ETL complete." (line 142).  The strict
\* parse of line 130 is outside any try.
Agg3 ==
    /\ pc = "agg3"
    /\ IF ~HasAll(df, <<N_ticker, N_trade_date, N_close_price>>)
       THEN /\ agg3' = agg3
            /\ pc' = "done"
            /\ err' = err
       ELSE LET p == StrptimeInfer(Column(df, ColIndex(df, N_trade_date)))
            IN  IF p.ok
                THEN /\ agg3' = [written |-> TRUE, rows |-> DailyReturns(df, p.cells)]
                     /\ pc' = "done"
                     /\ err' = err
                ELSE /\ agg3' = agg3
                     /\ pc' = "failed"
                     /\ err' = "ComputeError"
    /\ UNCHANGED <<raw, df, warnings, parsedMsg, cleaned, agg1, agg2>>

Next ==
    \/ NormalizeHeaders
    \/ CleanTextColumns
    \/ FixDates
    \/ Schema
    \/ SaveCleaned
    \/ Agg1
    \/ Agg2
    \/ Agg3

(***************************************************************************)
(* Inputs: the table pl.read_csv hands to the script                       *)
(***************************************************************************)
Loaded(t) ==
    /\ raw = t
    /\ df = t
    /\ pc = "headers"
    /\ err = "none"
    /\ warnings = {}
    /\ parsedMsg = {}
    /\ cleaned = [written |-> FALSE, table |-> EmptyTable]
    /\ agg1 = [written |-> FALSE, rows |-> {}]
    /\ agg2 = [written |-> FALSE, rows |-> {}]
    /\ agg3 = [written |-> FALSE, rows |-> <<>>]

H_TradeDate == <<"T","r","a","d","e"," ","D","a","t","e">>

H_Ticker == <<"T","i","c","k","e","r">>

H_Sector == <<" ","S","e","c","t","o","r">>

H_ClosePrice == <<"C","l","o","s","e","-","P","r","i","c","e">>

H_Volume == <<"V","O","L","U","M","E">>

H_A1 == <<"A","1">>

H_TradeId == <<"T","r","a","d","e"," ","I","d">>

BaseHeader == <<H_TradeDate, H_Ticker, H_Sector, H_ClosePrice, H_Volume>>

BaseTypes == <<"Utf8", "Utf8", "Utf8", "Float64", "Int64">>

V_AAPL == <<"A","A","P","L">>

V_MSFT == <<"M","S","F","T">>

V_Tech == <<"T","e","c","h">>

V_Health == <<"H","e","a","l","t","h">>

D_0102 == <<"0","1","/","0","2","/","2","0","2","3">>

D_0103 == <<"0","1","/","0","3","/","2","0","2","3">>

D_0104 == <<"0","1","/","0","4","/","2","0","2","3">>

D_0113 == <<"0","1","/","1","3","/","2","0","2","3">>

D_1301 == <<"1","3","/","0","1","/","2","0","2","3">>

D_0230 == <<"0","2","/","3","0","/","2","0","2","3">>

D_Padded == <<" ","0","1","/","0","2","/","2","0","2","3">>

D_Iso0102 == <<"2","0","2","3","-","0","1","-","0","2">>

D_Iso0103 == <<"2","0","2","3","-","0","1","-","0","3">>

D_NA == <<"N","/","A">>

BaseRows ==
    << <<Str(D_0102), Str(V_AAPL), Str(V_Tech), Num(100), Num(100)>>,
       <<Str(D_0103), Str(V_AAPL), Str(V_Tech), Num(110), Num(200)>>,
       <<Str(D_0102), Str(V_MSFT), Str(V_Health), Num(100), Num(50)>>,
       <<Str(D_0103), Str(V_MSFT), Str(V_Health), Num(110), NullCell>> >>

BaseTable == [columns |-> BaseHeader, dtypes |-> BaseTypes, rows |-> BaseRows]

StringsUpTo(alphabet, n) == UNION {[1..k -> alphabet] : k \in 0..n}

\* ---- header inputs: one more column, of any name over NameAlphabet ----
MaxNameLen == 3

NameAlphabet == {" ", "-", "_", "a", "A", "1", NonAsciiLower}

InitHeader ==
    \E nm \in StringsUpTo(NameAlphabet, MaxNameLen) \ {H_A1} :
        Loaded([columns |-> BaseHeader \o <<H_A1, nm>>,
                dtypes |-> BaseTypes \o <<"Int64", "Utf8">>,
                rows |-> [r \in 1..2 |-> BaseRows[r] \o <<Num(r), NullCell>>]])

SpecHeader == InitHeader /\ [][Next]_vars


\* ---- text inputs: one Sector cell of any text over CellAlphabet ----
MaxCellLen == 3

CellAlphabet == {" ", "-", "/", "n", "a", "A", "u", "l"}

LongCells ==
    { <<"n","u","l","l">>, <<"N","U","L","L">>, <<" ","N","u","l","l"," ">>,
      <<"n","u","l","l","s">>, <<" ","N","/","A","\t">>, <<"T","e"," ","C","h">>,
      <<" "," ","-"," "," ">>, <<"n","/","a","/">> }

TextCells ==
    {Str(s) : s \in StringsUpTo(CellAlphabet, MaxCellLen) \cup LongCells}
        \cup {NullCell}

InitText ==
    \E c \in TextCells :
        Loaded([BaseTable EXCEPT
                   !.rows = << [BaseRows[1] EXCEPT ![3] = c], BaseRows[2] >>])

SpecText == InitText /\ [][Next]_vars

\* ---- date inputs: Trade Date cells of several layouts, and optionally a
\* numeric column whose name also contains "trade" ----
MaxDateRows == 2

DateCells ==
    << Str(D_0102), Str(D_0103), Str(D_0113), Str(D_1301), Str(D_0230),
       Str(D_Padded), Str(D_Iso0102), Str(D_Iso0103), Str(D_NA), NullCell >>

DateRow(r, c) ==
    <<c, Str(V_AAPL), Str(V_Tech), Num(100 + 10 * (r - 1)), Num(100 * r)>>

InitDate ==
    \E k \in 1..MaxDateRows :
      \E pick \in [1..k -> 1..Len(DateCells)] :
        \E withId \in BOOLEAN :
          Loaded([columns |-> BaseHeader \o (IF withId THEN <<H_TradeId>> ELSE <<>>),
                  dtypes |-> BaseTypes \o (IF withId THEN <<"Int64">> ELSE <<>>),
                  rows |-> [r \in 1..k |->
                               DateRow(r, DateCells[pick[r]])
                                  \o (IF withId THEN <<Num(r)>> ELSE <<>>)]])

SpecDate == InitDate /\ [][Next]_vars

\* ---- whole-run inputs: any subset of the five columns, a few rows ----
MaxRunRows == 3

Project(row, keep) == [i \in 1..Len(keep) |-> row[keep[i]]]

\* the increasing sequences of column positions
ColumnChoices ==
    {c \in UNION {[1..n -> 1..Len(BaseHeader)] : n \in 1..Len(BaseHeader)} :
        \A i \in 1..(Len(c) - 1) : c[i] < c[i + 1]}

InitRun ==
    \E keep \in ColumnChoices :
      \E k \in 1..MaxRunRows :
        Loaded([columns |-> Project(BaseHeader, keep),
                dtypes |-> Project(BaseTypes, keep),
                rows |-> [r \in 1..k |-> Project(BaseRows[r], keep)]])

SpecRun == InitRun /\ [][Next]_vars


NonDecreasing(k, n) ==
    {c \in [1..k -> 1..n] : \A i \in 1..(k - 1) : c[i] <= c[i + 1]}

\* ---- Aggregate 2 inputs: rows over a few sectors and volumes ----
MaxAgg2Rows == 3

V_TechLoud == <<" ","T","E","C","H">>

Agg2Row(sector, volume, ticker) ==
    <<Str(D_0102), Str(ticker), sector, Num(100), volume>>

Agg2RowTypes ==
    << Agg2Row(Str(V_Tech), Num(50), V_AAPL),    Agg2Row(Str(V_Tech), Num(100), V_AAPL),
       Agg2Row(Str(V_Tech), Num(200), V_AAPL),   Agg2Row(Str(V_Tech), NullCell, V_AAPL),
       Agg2Row(Str(V_Health), Num(50), V_AAPL),  Agg2Row(Str(V_Health), Num(100), V_AAPL),
       Agg2Row(Str(V_Health), Num(200), V_AAPL), Agg2Row(Str(V_Health), NullCell, V_AAPL),
       Agg2Row(NullCell, Num(50), V_AAPL),       Agg2Row(NullCell, Num(100), V_AAPL),
       Agg2Row(NullCell, Num(200), V_AAPL),      Agg2Row(NullCell, NullCell, V_AAPL),
       Agg2Row(Str(V_Tech), Num(100), V_MSFT),   Agg2Row(Str(V_Tech), NullCell, V_MSFT),
       Agg2Row(Str(V_TechLoud), Num(200), V_AAPL) >>

InitAgg2 ==
    \E k \in 1..MaxAgg2Rows :
      \E pick \in NonDecreasing(k, Len(Agg2RowTypes)) :
        Loaded([BaseTable EXCEPT !.rows = [r \in 1..k |-> Agg2RowTypes[pick[r]]]])

SpecAgg2 == InitAgg2 /\ [][Next]_vars

\* ---- Aggregate 3 inputs: rows over a few dates, tickers and closes ----
MaxAgg3Rows == 3

Agg3Row(date, ticker, close) == <<date, ticker, Str(V_Tech), close, Num(100)>>

Agg3RowTypes ==
    << Agg3Row(Str(D_0102), Str(V_AAPL), Num(100)), Agg3Row(Str(D_0102), Str(V_AAPL), Num(110)),
       Agg3Row(Str(D_0102), Str(V_AAPL), NullCell),
       Agg3Row(Str(D_0103), Str(V_AAPL), Num(100)), Agg3Row(Str(D_0103), Str(V_AAPL), Num(110)),
       Agg3Row(Str(D_0103), Str(V_AAPL), NullCell),
       Agg3Row(Str(D_0104), Str(V_AAPL), Num(100)), Agg3Row(Str(D_0104), Str(V_AAPL), Num(110)),
       Agg3Row(Str(D_0104), Str(V_AAPL), NullCell),
       Agg3Row(NullCell, Str(V_AAPL), Num(100)),    Agg3Row(NullCell, Str(V_AAPL), Num(110)),
       Agg3Row(Str(D_0102), Str(V_MSFT), Num(100)), Agg3Row(Str(D_0103), Str(V_MSFT), Num(110)),
       Agg3Row(Str(D_0103), Str(V_MSFT), NullCell),
       Agg3Row(Str(D_0104), NullCell, Num(100)) >>

InitAgg3 ==
    \E k \in 1..MaxAgg3Rows :
      \E pick \in NonDecreasing(k, Len(Agg3RowTypes)) :
        Loaded([BaseTable EXCEPT !.rows = [r \in 1..k |-> Agg3RowTypes[pick[r]]]])

SpecAgg3 == InitAgg3 /\ [][Next]_vars

Init == InitHeader \/ InitText \/ InitDate \/ InitRun \/ InitAgg2 \/ InitAgg3

Spec == Init /\ [][Next]_vars


(***************************************************************************)
(* Properties                                                              *)
(***************************************************************************)
HeadersDone == pc # "headers" /\ err # "DuplicateError"

IsAsciiName(s) ==
    \A j \in 1..Len(s) : s[j] \notin {NonAsciiLower, NonAsciiUpper}

NoEdgeOrDoubleUnderscore(out) ==
    /\ out # <<>> => out[1] # "_" /\ out[Len(out)] # "_"
    /\ \A j \in 1..(Len(out) - 1) : ~(out[j] = "_" /\ out[j + 1] = "_")

\* C1 as stated: once the headers are normalized, every column name matches
\* ^[a-z0-9_]+$ and has no leading and no trailing underscore.
C1_Original ==
    HeadersDone =>
        \A i \in 1..Len(df.columns) :
            LET out == df.columns[i]
            IN  /\ out # <<>>
                /\ \A j \in 1..Len(out) : IsAsciiWord(out[j])
                /\ out[1] # "_"
                /\ out[Len(out)] # "_"

\* C1 as amended: once the headers are normalized, every column name holds
\* only word characters, none of them a capital, and only [a-z0-9_] when the
\* input name is ASCII; it is empty exactly when the stripped input name is;
\* it starts (ends) with an underscore exactly when the stripped input name
\* starts (ends) with an underscore or a non-word character; two adjacent
\* underscores appear only when the input name itself holds an underscore;
\* and a stripped input name without underscores that starts and ends with a
\* word character gives a name with no leading, trailing or doubled
\* underscore.
C1_HeaderNormalized ==
    HeadersDone =>
        \A i \in 1..Len(df.columns) :
            LET in  == Strip(raw.columns[i])
                out == df.columns[i]
                Edge(c) == c = "_" \/ ~IsWord(c)
            IN  /\ \A j \in 1..Len(out) :
                       IsWord(out[j]) /\ out[j] \notin ToSet(Upper) \cup {NonAsciiUpper}
                /\ IsAsciiName(raw.columns[i]) =>
                       \A j \in 1..Len(out) : IsAsciiWord(out[j])
                /\ (out = <<>>) <=> (in = <<>>)
                /\ out # <<>> =>
                       /\ (out[1] = "_") <=> Edge(in[1])
                       /\ (out[Len(out)] = "_") <=> Edge(in[Len(in)])
                /\ (\E j \in 1..(Len(out) - 1) : out[j] = "_" /\ out[j + 1] = "_")
                       => \E j \in 1..Len(in) : in[j] = "_"
                /\ ( /\ in # <<>>
                     /\ IsWord(in[1]) /\ IsWord(in[Len(in)])
                     /\ \A j \in 1..Len(in) : in[j] # "_" )
                       => NoEdgeOrDoubleUnderscore(out)

\* a name wrapped in non-word characters keeps an underscore at both ends
C1_Witness ==
    /\ pc = "text"
    /\ \E i \in 1..Len(df.columns) :
          /\ raw.columns[i] = <<"-", "A", "-">>
          /\ df.columns[i] = <<"_", "a", "_">>

\* t is s without its leading and trailing whitespace
IsTrimOf(t, s) ==
    \E a \in 0..Len(s) :
        /\ a + Len(t) <= Len(s)
        /\ t = SubSeq(s, a + 1, a + Len(t))
        /\ \A j \in 1..a : IsSpace(s[j])
        /\ \A j \in (a + Len(t) + 1)..Len(s) : IsSpace(s[j])
        /\ t # <<>> => ~IsSpace(t[1]) /\ ~IsSpace(t[Len(t)])

IsLowerOf(l, t) ==
    /\ Len(l) = Len(t)
    /\ \A j \in 1..Len(t) :
          /\ l[j] \notin ToSet(Upper)
          /\ l[j] = t[j] \/ (t[j] \in ToSet(Upper) /\ l[j] = LowerL[IndexOf(Upper, t[j])])

\* C6: right after the text stage, a cell of a text column whose trimmed,
\* lower-cased value is one of "", " ", "na", "n/a", "null", "-" is the
\* literal "null"; any other cell of a text column is its trimmed, lower-cased
\* value (a missing value stays missing); cells of other columns are as loaded.
C6_TextNormalized ==
    pc = "dates" =>
        \A r \in 1..Len(df.rows) : \A i \in 1..Len(df.columns) :
            LET in  == raw.rows[r][i]
                out == df.rows[r][i]
            IN  IF raw.dtypes[i] # "Utf8" \/ in.null THEN out = in
                ELSE /\ ~out.null /\ out.n = 0
                     /\ \E k \in 0..Len(in.s) :
                          \E a \in 0..(Len(in.s) - k) :
                            LET t == SubSeq(in.s, a + 1, a + k)
                                l == ToLower(t)
                            IN  /\ IsTrimOf(t, in.s)
                                /\ IsLowerOf(l, t)
                                /\ IF l \in {<<>>, <<" ">>, <<"n","a">>, <<"n","/","a">>,
                                             <<"n","u","l","l">>, <<"-">>}
                                   THEN out.s = <<"n","u","l","l">>
                                   ELSE out.s = l

\* a padded, capitalised n/a becomes the literal "null"; the numbers beside it stay
C6_Witness ==
    /\ pc = "dates"
    /\ \E r \in 1..Len(df.rows) : \E i \in 1..Len(df.columns) :
          /\ raw.dtypes[i] = "Utf8"
          /\ raw.rows[r][i] = Str(<<" ", "N", "/", "A", "\t">>)
          /\ df.rows[r][i] = Str(<<"n", "u", "l", "l">>)
    /\ \E r \in 1..Len(df.rows) : \E i \in 1..Len(df.columns) :
          raw.dtypes[i] # "Utf8" /\ df.rows[r][i] = raw.rows[r][i]


TradeTextColumn(t, i) == Contains(t.columns[i], TRADE) /\ t.dtypes[i] = "Utf8"

\* every value present in the column reads as a date in the layout
MatchesLayout(cells, fmt) ==
    \A j \in 1..Len(cells) : cells[j].null \/ Strptime(cells[j].s, fmt).ok

MatchesNoLayout(cells) ==
    \A k \in 1..Len(date_formats) : ~MatchesLayout(cells, date_formats[k])

Canonical(cells, fmt) ==
    [j \in 1..Len(cells) |->
        IF cells[j].null THEN NullCell
        ELSE Str(Strftime(DateNum(Strptime(cells[j].s, fmt))))]

\* C9 as stated: the date stage rewrites a trade-named text column to
\* YYYY-MM-DD, read in the first of the layouts YYYY-MM-DD, MM/DD/YYYY,
\* DD/MM/YYYY that every cell matches, exactly when one of the three matches
\* every cell, and leaves it as text (with the warning) only when none does.
C9_Original ==
    [][pc = "dates" =>
        \A i \in 1..Len(df.columns) :
            TradeTextColumn(df, i) =>
                LET cells == Column(df, i)
                    hits  == {k \in 1..Len(date_formats) :
                                 MatchesLayout(cells, date_formats[k])}
                IN  IF hits # {}
                    THEN LET k == CHOOSE k \in hits : \A h \in hits : k <= h
                         IN  /\ Column(df', i) = Canonical(cells, date_formats[k])
                             /\ df.columns[i] \notin warnings'
                    ELSE /\ Column(df', i) = cells
                         /\ df.columns[i] \in warnings']_vars

C4_Original ==
    ( /\ pc \in {"done", "failed"}
      /\ \E i \in 1..Len(df.columns) :
            /\ TradeTextColumn(df, i)
            /\ df.columns[i] \in warnings
            /\ MatchesNoLayout(Column(df, i)) )
    => /\ pc = "done"
       /\ err = "none"
       /\ cleaned.written /\ agg1.written /\ agg2.written


RunOver == pc \in {"done", "failed"}

ReturnColumns == <<N_trade_date, N_ticker, N_close_price>>

\* C2 as stated: when the run has ended past the cleaned table, every
\* aggregate whose own inputs are there has been written, whatever happened to
\* the other two.
C2_Original ==
    (RunOver /\ cleaned.written) =>
        /\ HasAll(df, <<N_close_price, N_trade_date, N_ticker>>) => agg1.written
        /\ HasAll(df, <<N_volume, N_sector>>) => agg2.written
        /\ ( /\ HasAll(df, ReturnColumns)
             /\ StrptimeInfer(Column(df, ColIndex(df, N_trade_date))).ok )
               => agg3.written

\* C3 as stated: a run whose cleaned table lacks trade_date, ticker or
\* close_price ends normally ("ETL complete"), with no error and no agg3.
C3_Original ==
    (RunOver /\ cleaned.written /\ ~HasAll(df, ReturnColumns)) =>
        /\ pc = "done"
        /\ err = "none"
        /\ ~agg3.written

RECURSIVE SumCells(_, _, _)
SumCells(t, rowset, i) ==
    IF rowset = {} THEN 0
    ELSE LET r == CHOOSE r \in rowset : TRUE
         IN  t.rows[r][i].n + SumCells(t, rowset \ {r}, i)

\* C8: agg2 has exactly one row per sector (the missing sector counted as one)
\* that has a row with a volume in the deduplicated cleaned table, and its
\* value is the sum over the count of the volumes of exactly those rows.
C8_AvgVolume ==
    agg2.written =>
        LET si == ColIndex(df, N_sector)
            vi == ColIndex(df, N_volume)
            withVolume == {r \in 1..Len(df.rows) : ~df.rows[r][vi].null}
            sectors == {df.rows[r][si] : r \in withVolume}
            Of(sec) == {r \in withVolume : df.rows[r][si] = sec}
        IN  /\ IsDistinct(df.rows)
            /\ {g.key : g \in agg2.rows} = {<<sec>> : sec \in sectors}
            /\ Cardinality(agg2.rows) = Cardinality(sectors)
            /\ \A g \in agg2.rows :
                  /\ g.n = Cardinality(Of(g.key[1]))
                  /\ g.sum = SumCells(df, Of(g.key[1]), vi)

\* sectors Tech, Tech, Health with volumes 100, 200, 50: tech 300/2, health 50/1
C8_Witness ==
    /\ agg2.written
    /\ Len(raw.rows) = 3
    /\ agg2.rows = { [key |-> <<Str(<<"t","e","c","h">>)>>, sum |-> 300, n |-> 2],
                     [key |-> <<Str(<<"h","e","a","l","t","h">>)>>, sum |-> 50, n |-> 1] }

\* ---- Aggregate 3 ----
DateValue(c) == DateNum(Strptime(c.s, FMT_YMD))

Tickers ==
    LET ti == ColIndex(df, N_ticker)
    IN  {df.rows[r][ti] : r \in 1..Len(df.rows)} \ {NullCell}

RowsOf(t) == {r \in 1..Len(df.rows) : df.rows[r][ColIndex(df, N_ticker)] = t}

DateCell(r) == df.rows[r][ColIndex(df, N_trade_date)]

CloseCell(r) == df.rows[r][ColIndex(df, N_close_price)]

OutOf(t) == {j \in 1..Len(agg3.rows) : agg3.rows[j].ticker = t}

ExactReturn(c, p) == [null |-> FALSE, num |-> c - p, den |-> p]

\* C7: in a written agg3, a ticker whose rows all have a close and a trade
\* date, on n different dates, has exactly n-1 rows: none at its earliest
\* date, and at every later date one row whose return is close over the close
\* at the same ticker's date just before, minus one.
C7_DailyReturn ==
    agg3.written =>
        \A t \in Tickers :
            LET R == RowsOf(t)
            IN  ( /\ \A r \in R : ~DateCell(r).null /\ ~CloseCell(r).null
                  /\ \A r, q \in R : DateCell(r) = DateCell(q) => r = q )
                =>
                /\ Cardinality(OutOf(t)) = Cardinality(R) - 1
                /\ \A r \in R :
                      LET d == DateValue(DateCell(r))
                          earlier == {q \in R : DateValue(DateCell(q)) < d}
                          at == {j \in OutOf(t) : agg3.rows[j].trade_date = Num(d)}
                      IN  IF earlier = {} THEN at = {}
                          ELSE LET p == CHOOSE p \in earlier : \A q \in earlier :
                                          DateValue(DateCell(q)) <= DateValue(DateCell(p))
                               IN  /\ Cardinality(at) = 1
                                   /\ \A j \in at :
                                         agg3.rows[j].ret =
                                            ExactReturn(CloseCell(r).n, CloseCell(p).n)

\* closes 100 then 110 for one ticker, another ticker's row between them in
\* the table: one row, on the second date, with return 10/100
C7_Witness ==
    /\ agg3.written
    /\ Cardinality(Tickers) = 2
    /\ \E t \in Tickers :
          /\ Cardinality(RowsOf(t)) = 2
          /\ \E j \in 1..Len(agg3.rows) :
                /\ OutOf(t) = {j}
                /\ agg3.rows[j].trade_date = Num(20230103)
                /\ agg3.rows[j].ret = [null |-> FALSE, num |-> 10, den |-> 100]
          /\ \E r \in RowsOf(t) : CloseCell(r) = Num(100) /\ DateValue(DateCell(r)) = 20230102
          /\ \E r \in RowsOf(t) : CloseCell(r) = Num(110) /\ DateValue(DateCell(r)) = 20230103

FullTriple(r) ==
    /\ ~DateCell(r).null
    /\ ~df.rows[r][ColIndex(df, N_ticker)].null
    /\ ~CloseCell(r).null

\* C10 as stated: rows with a null trade_date, ticker or close are removed
\* before the lagged ratio, so every row with all three that has an earlier
\* such row of its ticker gets a return row, taken against the closest one.
C10_Original ==
    agg3.written =>
        \A t \in Tickers : \A r \in RowsOf(t) :
            LET good == {q \in RowsOf(t) : FullTriple(q)}
                prevs == {q \in good : DateValue(DateCell(q)) < DateValue(DateCell(r))}
            IN  (FullTriple(r) /\ prevs # {}) =>
                    \E p \in prevs :
                        /\ \A q \in prevs : DateValue(DateCell(q)) <= DateValue(DateCell(p))
                        /\ \E j \in OutOf(t) :
                              /\ agg3.rows[j].trade_date = Num(DateValue(DateCell(r)))
                              /\ agg3.rows[j].ret =
                                    ExactReturn(CloseCell(r).n, CloseCell(p).n)

\* where a row stands in its ticker's series: a missing trade date first
SeriesKey(r) == IF DateCell(r).null THEN 0 ELSE DateValue(DateCell(r))

\* C10 as amended: no row is removed before the lagged ratio.  For a ticker
\* whose rows have pairwise different trade dates (a missing date being one),
\* agg3 holds one row for exactly the rows that have a trade date and a close
\* and whose predecessor in the series (missing date first, then by date) has
\* a close, with the return taken against that predecessor; a row after a
\* null-close row, and a null-close row itself, get none.  No row of agg3 has
\* a missing ticker.
C10_NullsDroppedAfter ==
    agg3.written =>
        /\ \A j \in 1..Len(agg3.rows) : ~agg3.rows[j].ticker.null
        /\ \A t \in Tickers :
              LET R == RowsOf(t)
                  key == [r \in R |-> SeriesKey(r)]
                  close == [r \in R |-> CloseCell(r)]
                  Pred(r) == {q \in R : /\ key[q] < key[r]
                                        /\ \A x \in R : key[x] < key[r] => key[x] <= key[q]}
                  expected ==
                      { [trade_date |-> Num(key[rq[1]]), ticker |-> t,
                         ret |-> ExactReturn(close[rq[1]].n, close[rq[2]].n)] :
                        rq \in {rq \in R \X R :
                                   /\ key[rq[1]] # 0
                                   /\ ~close[rq[1]].null
                                   /\ ~close[rq[2]].null
                                   /\ rq[2] \in Pred(rq[1])} }
              IN  (\A r, q \in R : key[r] = key[q] => r = q) =>
                      /\ {agg3.rows[j] : j \in OutOf(t)} = expected
                      /\ Cardinality(OutOf(t)) = Cardinality(expected)

\* closes 100, missing, 110 on three successive dates of one ticker: no row at all
C10_Witness ==
    /\ agg3.written
    /\ Len(df.rows) = 3
    /\ \E t \in Tickers :
          /\ Cardinality(RowsOf(t)) = 3
          /\ \E a, b, c \in RowsOf(t) :
                /\ DateCell(a) = Str(D_Iso0102) /\ CloseCell(a) = Num(100)
                /\ DateCell(b) = Str(D_Iso0103) /\ CloseCell(b).null
                /\ ~DateCell(c).null /\ DateValue(DateCell(c)) = 20230104
                /\ CloseCell(c) = Num(110)
    /\ agg3.rows = <<>>


====
